---------------------------- MODULE Spec2Model ----------------------------
(***************************************************************************)
(* The in-memory user and post repositories of gin-golang-api (main.go).   *)
(*                                                                         *)
(* Spec      : the ten handlers, each run to completion before the next    *)
(*             one starts (handlers execute one at a time).                *)
(* SpecConc  : getUsers, createUser, updateUser and deleteUser run by two   *)
(*             goroutines whose accesses to the package-level variables    *)
(*             interleave (gin serves every request on its own goroutine   *)
(*             and main.go takes no lock).                                 *)
(***************************************************************************)
EXTENDS Integers, Sequences, FiniteSets, TLC

(***************************************************************************)
(* Bounds of the model.                                                    *)
(***************************************************************************)
MaxUserId == 2     \* createUser is explored while userCounter <= MaxUserId
MaxPostId == 2     \* createPost is explored while postCounter <= MaxPostId
MaxTime   == 1     \* time.Now() is read at most MaxTime times

(***************************************************************************)
(* Request inputs.                                                         *)
(***************************************************************************)
NoParam == <<>>
NoReq   == [kind |-> "none"]
NoBody  == [kind |-> "none"]

\* gin.H{"error": msg} and gin.H{"message": msg}.
ErrorBody(msg)   == [error |-> msg]
MessageBody(msg) == [message |-> msg]

\* gin.H{"error": err.Error()} for the error ShouldBindJSON returns.
BindError == ErrorBody("binding")

\* JSON bodies of POST/PUT /users: three that bind (two share a username,
\* two share an email, two share nothing) and one that does not.
UserReqs ==
    { [username |-> "alice", email |-> "a@x.com"],
      [username |-> "bob",   email |-> "a@x.com"],
      [username |-> "bob",   email |-> "b@x.com"],
      [username |-> "alice", email |-> "bad"] }

\* JSON bodies of POST/PUT /posts: two that bind, one that does not.
PostReqs ==
    { [title |-> "T1", content |-> "C"],
      [title |-> "T2", content |-> "C"],
      [title |-> "",   content |-> "C"] }

\* The :id path parameter, as the sequence of its characters.
IdParams ==
    { <<"1">>, <<"0", "2">>, <<"x">>,
      <<"4", "2", "9", "4", "9", "6", "7", "2", "9", "6">> }

(***************************************************************************)
(* strconv.ParseUint(s, 10, 32)                                            *)
(***************************************************************************)
DigitVal(c) ==
    CASE c = "0" -> 0 [] c = "1" -> 1 [] c = "2" -> 2 [] c = "3" -> 3
      [] c = "4" -> 4 [] c = "5" -> 5 [] c = "6" -> 6 [] c = "7" -> 7
      [] c = "8" -> 8 [] c = "9" -> 9 [] OTHER -> -1

\* The digits of 1<<32 - 1, the largest value of bitSize 32.
MaxUint32Digits == <<4, 2, 9, 4, 9, 6, 7, 2, 9, 5>>

RECURSIVE StripZeros(_)
StripZeros(ds) ==
    IF Len(ds) > 1 /\ ds[1] = 0 THEN StripZeros(Tail(ds)) ELSE ds

RECURSIVE DigitsGreater(_, _)
\* ds > es for two digit sequences of the same length.
DigitsGreater(ds, es) ==
    IF Len(ds) = 0 THEN FALSE
    ELSE IF ds[1] # es[1] THEN ds[1] > es[1]
    ELSE DigitsGreater(Tail(ds), Tail(es))

RECURSIVE DigitsValue(_, _)
DigitsValue(ds, acc) ==
    IF Len(ds) = 0 THEN acc ELSE DigitsValue(Tail(ds), acc * 10 + ds[1])

\* A parse whose syntax error is dropped (id, _ := ...): the value is 0.
ParseUint_SyntaxErrorDropped(s) ==
    IF Len(s) = 0 \/ \E i \in 1..Len(s) : DigitVal(s[i]) = -1
    THEN [err |-> FALSE, val |-> 0]
    ELSE LET ds == StripZeros([i \in 1..Len(s) |-> DigitVal(s[i])])
         IN  IF \/ Len(ds) > Len(MaxUint32Digits)
                \/ /\ Len(ds) = Len(MaxUint32Digits)
                   /\ DigitsGreater(ds, MaxUint32Digits)
             THEN [err |-> TRUE, val |-> 0]
             ELSE [err |-> FALSE, val |-> DigitsValue(ds, 0)]

\* [err |-> FALSE, val |-> n], or err |-> TRUE for a syntax or range error.
ParseUint(s) ==
    IF Len(s) = 0 \/ \E i \in 1..Len(s) : DigitVal(s[i]) = -1
    THEN [err |-> TRUE, val |-> 0]
    ELSE LET ds == StripZeros([i \in 1..Len(s) |-> DigitVal(s[i])])
         IN  IF \/ Len(ds) > Len(MaxUint32Digits)
                \/ /\ Len(ds) = Len(MaxUint32Digits)
                   /\ DigitsGreater(ds, MaxUint32Digits)
             THEN [err |-> TRUE, val |-> 0]
             ELSE [err |-> FALSE, val |-> DigitsValue(ds, 0)]

\* The parse of each :id parameter of the model.
idOf == [p \in IdParams |-> ParseUint(p)]

(***************************************************************************)
(* c.ShouldBindJSON with the binding tags of the request types.            *)
(***************************************************************************)
\* The "email" validator, on the addresses of the model.
IsEmail(e) == e \in {"a@x.com", "b@x.com"}

\* CreateUserRequest: username required; email required,email.
BindUser(req) == req.username # "" /\ req.email # "" /\ IsEmail(req.email)

\* CreatePostRequest: title required; content required.
BindPost(req) == req.title # "" /\ req.content # ""

(***************************************************************************)
(* Entities.  time.Time{} (the zero time) is 0; the clock starts after it. *)
(***************************************************************************)
ZeroTime == 0

ZeroUser ==
    [ID |-> 0, Username |-> "", Email |-> "",
     CreatedAt |-> ZeroTime, UpdatedAt |-> ZeroTime]

\* The composite literal User{ID: userCounter, Username: ..., Email: ...}.
NewUser(counter, req) ==
    [ID |-> counter, Username |-> req.username, Email |-> req.email,
     CreatedAt |-> ZeroTime, UpdatedAt |-> ZeroTime]

\* The composite literal Post{ID: postCounter, Title: ..., AuthorID: ...}.
NewPost(counter, req, authorID) ==
    [ID |-> counter, Title |-> req.title, Content |-> req.content,
     AuthorID |-> authorID, Author |-> ZeroUser,
     CreatedAt |-> ZeroTime, UpdatedAt |-> ZeroTime]

(***************************************************************************)
(* The loops of the handlers, over a slice held as a sequence.             *)
(***************************************************************************)
\* A scan that rejects only a user matching on both fields.
UserExists_BothFields(us, req) ==
    \E i \in 1..Len(us) :
        us[i].Username = req.username /\ us[i].Email = req.email

\* createUser's scan: some user has the username or the email.
UserExists(us, req) ==
    \E i \in 1..Len(us) :
        us[i].Username = req.username \/ us[i].Email = req.email

\* A lookup that falls back on the last element when nothing matches.
IndexOf_FallsToLast(s, id) ==
    IF \E i \in 1..Len(s) : s[i].ID = id
    THEN CHOOSE i \in 1..Len(s) : s[i].ID = id
    ELSE Len(s)

\* The first index whose element has the ID, 0 when the range loop ends
\* without a match.
IndexOf(s, id) ==
    IF \E i \in 1..Len(s) : s[i].ID = id
    THEN CHOOSE i \in 1..Len(s) :
             /\ s[i].ID = id
             /\ \A j \in 1..(i - 1) : s[j].ID # id
    ELSE 0

\* An inner scan that needs both fields to match.
UpdateConflict_BothFields(us, user, req) ==
    \E j \in 1..Len(us) :
        /\ us[j].ID # user.ID
        /\ (us[j].Username = req.username /\ us[j].Email = req.email)

\* An inner scan that does not skip the target itself.
UpdateConflict_CountsSelf(us, user, req) ==
    \E j \in 1..Len(us) :
        us[j].Username = req.username \/ us[j].Email = req.email

\* updateUser's inner scan: another user has the username or the email.
UpdateConflict(us, user, req) ==
    \E j \in 1..Len(us) :
        /\ us[j].ID # user.ID
        /\ (us[j].Username = req.username \/ us[j].Email = req.email)

\* A removal that drops the last element whatever the index.
RemoveAt_DropsLast(s, i) == SubSeq(s, 1, Len(s) - 1)

\* A removal that keeps s[:i] only: the elements after i are lost with it.
RemoveAt_KeepsHead(s, i) == SubSeq(s, 1, i - 1)

\* append(s[:i], s[i+1:]...): the elements after i move down by one.
RemoveAt(s, i) ==
    [j \in 1..(Len(s) - 1) |-> IF j < i THEN s[j] ELSE s[j + 1]]

\* An author taken from the most recently appended user.
AuthorFor_LastUser(us) == IF Len(us) > 0 THEN us[Len(us)].ID ELSE 1

\* createPost's author: the first user's ID, or 1.
AuthorFor(us) == IF Len(us) > 0 THEN us[1].ID ELSE 1

\* A counter that is left as it was.
Incr_Forgotten(counter) == counter

\* userCounter++ and postCounter++.
Incr(counter) == counter + 1

\* An update that writes the two fields and leaves UpdatedAt as it was.
UpdatedUser_KeepsUpdatedAt(user, req, t) ==
    [user EXCEPT !.Username = req.username, !.Email = req.email]

\* An update that stores a fresh literal User{Username, Email, UpdatedAt}
\* in the slot: the ID it does not name becomes zero.
UpdatedUser_ReplacesWhole(user, req, t) ==
    [ID |-> 0, Username |-> req.username, Email |-> req.email,
     CreatedAt |-> ZeroTime, UpdatedAt |-> t]

\* updateUser's three assignments to users[i]; t is what time.Now() returns.
UpdatedUser(user, req, t) ==
    [user EXCEPT !.Username = req.username, !.Email = req.email,
                 !.UpdatedAt = t]

\* An update that stores a fresh literal Post{ID, Title, Content, UpdatedAt}
\* in the slot: the fields it does not name become zero.
UpdatedPost_ReplacesWhole(post, req, t) ==
    [ID |-> post.ID, Title |-> req.title, Content |-> req.content,
     AuthorID |-> 0, Author |-> ZeroUser,
     CreatedAt |-> ZeroTime, UpdatedAt |-> t]

\* updatePost's three assignments to posts[i]; t is what time.Now() returns.
UpdatedPost(post, req, t) ==
    [post EXCEPT !.Title = req.title, !.Content = req.content,
                 !.UpdatedAt = t]

(***************************************************************************)
(* State.                                                                  *)
(***************************************************************************)
VARIABLES
    users,          \* var users []User
    posts,          \* var posts []Post
    userCounter,    \* var userCounter uint = 1
    postCounter,    \* var postCounter uint = 1
    now,            \* the last value time.Now() returned
    resp,           \* the last request and what c.JSON answered
    issued,         \* the IDs answered with 201, in order, per repository
    deleted,        \* the IDs answered "deleted successfully", per repository
    \* The same package-level variables as two goroutines see them:
    cUsers,         \* var users []User, as its slice header (ptr, len, cap)
    cHeap,          \* the backing arrays, by address
    cUserCounter,   \* var userCounter uint
    pc,             \* where each goroutine is in its handler
    loc,            \* each goroutine's local variables
    out,            \* what each goroutine's handler answered
    cStart          \* the users and the counter before the two requests

dataVars == <<users, posts, userCounter, postCounter, now>>
histVars == <<issued, deleted>>
concVars == <<cUsers, cHeap, cUserCounter, pc, loc, out, cStart>>
serialVars == <<users, posts, userCounter, postCounter, resp, issued, deleted>>
vars     == <<users, posts, userCounter, postCounter, now, resp, issued, deleted,
              cUsers, cHeap, cUserCounter, pc, loc, out, cStart>>

Response(op, param, req, status, body) ==
    [op |-> op, param |-> param, req |-> req, status |-> status, body |-> body]

(***************************************************************************)
(* Slices: a header (ptr, len, cap) over a backing array of the heap.      *)
(***************************************************************************)
Procs == {1, 2}

NilSlice == [ptr |-> 0, len |-> 0, cap |-> 0]

\* The elements a slice header shows: array[0:len].
View(heap, h) == [k \in 1..h.len |-> heap[h.ptr][k]]

\* runtime.growslice for a small slice: the capacity doubles.
GrowCap(cap) == IF cap = 0 THEN 1 ELSE 2 * cap

\* append(h, user): [heap, hdr], the heap after the element is written (in
\* place when len < cap, into a new array holding a copy otherwise) and
\* the header append returns.
AppendSlice(heap, h, user) ==
    IF h.len < h.cap
    THEN [heap |-> [heap EXCEPT ![h.ptr][h.len + 1] = user],
          hdr  |-> [ptr |-> h.ptr, len |-> h.len + 1, cap |-> h.cap]]
    ELSE LET newcap == GrowCap(h.cap)
             array  == [k \in 1..newcap |->
                           IF k <= h.len THEN heap[h.ptr][k]
                           ELSE IF k = h.len + 1 THEN user
                           ELSE ZeroUser]
         IN  [heap |-> Append(heap, array),
              hdr  |-> [ptr |-> Len(heap) + 1, len |-> h.len + 1,
                        cap |-> newcap]]

\* append(h[:i], h[i+1:]...) for the 0-based index i: the elements after i
\* are copied down by one inside the array, whose last slot keeps its value.
DeleteSlice(heap, h, i) ==
    [heap |-> [heap EXCEPT ![h.ptr] =
                  [k \in 1..h.cap |->
                      IF i + 1 <= k /\ k < h.len THEN heap[h.ptr][k + 1]
                      ELSE heap[h.ptr][k]]],
     hdr  |-> [ptr |-> h.ptr, len |-> h.len - 1, cap |-> h.cap]]

Loc0 ==
    [param |-> NoParam, req |-> NoReq, id |-> 0, h |-> NilSlice, i |-> 0, h2 |-> NilSlice,
     j |-> 0, user |-> ZeroUser, c |-> 0, nh |-> NilSlice,
     list |-> <<>>, count |-> 0]

NoOut == Response("none", NoParam, NoReq, 0, NoBody)

SerialInit ==
    /\ users = <<>>
    /\ posts = <<>>
    /\ userCounter = 1
    /\ postCounter = 1
    /\ now = ZeroTime
    /\ resp = Response("none", NoParam, NoReq, 0, NoBody)
    /\ issued = [users |-> <<>>, posts |-> <<>>]
    /\ deleted = [users |-> {}, posts |-> {}]

\* Under Spec no goroutine is in the middle of a handler: pc, loc and out
\* have no entries.
Init ==
    /\ SerialInit
    /\ cUsers = NilSlice
    /\ cHeap = <<>>
    /\ cUserCounter = 1
    /\ pc = <<>>
    /\ loc = <<>>
    /\ out = <<>>
    /\ cStart = [users |-> <<>>, counter |-> 1]

(***************************************************************************)
(* User handlers.                                                          *)
(***************************************************************************)
\* A List whose count is the number of users ever created.
getUsers_CountsCreated ==
    /\ resp' = Response("getUsers", NoParam, NoReq, 200,
                        [users |-> users, count |-> userCounter - 1])
    /\ UNCHANGED <<concVars, dataVars, histVars>>

getUsers ==
    /\ resp' = Response("getUsers", NoParam, NoReq, 200,
                        [users |-> users, count |-> Len(users)])
    /\ UNCHANGED <<concVars, dataVars, histVars>>

createUser(req) ==
    IF ~BindUser(req)
    THEN /\ resp' = Response("createUser", NoParam, req, 400, BindError)
         /\ UNCHANGED <<concVars, dataVars, histVars>>
    ELSE IF UserExists(users, req)
    THEN /\ resp' = Response("createUser", NoParam, req, 409, ErrorBody("User already exists"))
         /\ UNCHANGED <<concVars, dataVars, histVars>>
    ELSE LET user == NewUser(userCounter, req)
         IN  /\ userCounter <= MaxUserId
             /\ users' = Append(users, user)
             /\ userCounter' = Incr(userCounter)
             /\ resp' = Response("createUser", NoParam, req, 201, user)
             /\ issued' = [issued EXCEPT !.users = Append(@, user.ID)]
             /\ UNCHANGED <<concVars, posts, postCounter, now, deleted>>

getUser(param) ==
    LET id == idOf[param]
        i  == IndexOf(users, id.val)
    IN  /\ resp' = IF id.err
                   THEN Response("getUser", param, NoReq, 400, ErrorBody("Invalid user ID"))
                   ELSE IF i # 0
                   THEN Response("getUser", param, NoReq, 200, users[i])
                   ELSE Response("getUser", param, NoReq, 404, ErrorBody("User not found"))
        /\ UNCHANGED <<concVars, dataVars, histVars>>

updateUser(param, req) ==
    LET id == idOf[param]
        i  == IndexOf(users, id.val)
    IN  IF id.err
        THEN /\ resp' = Response("updateUser", param, req, 400, ErrorBody("Invalid user ID"))
             /\ UNCHANGED <<concVars, dataVars, histVars>>
        ELSE IF ~BindUser(req)
        THEN /\ resp' = Response("updateUser", param, req, 400, BindError)
             /\ UNCHANGED <<concVars, dataVars, histVars>>
        ELSE IF i = 0
        THEN /\ resp' = Response("updateUser", param, req, 404, ErrorBody("User not found"))
             /\ UNCHANGED <<concVars, dataVars, histVars>>
        ELSE IF UpdateConflict(users, users[i], req)
        THEN /\ resp' = Response("updateUser", param, req, 409, ErrorBody("Username or email already exists"))
             /\ UNCHANGED <<concVars, dataVars, histVars>>
        ELSE /\ now < MaxTime
             /\ now' = now + 1
             /\ users' = [users EXCEPT ![i] = UpdatedUser(@, req, now')]
             /\ resp' = Response("updateUser", param, req, 200, users'[i])
             /\ UNCHANGED <<concVars, posts, userCounter, postCounter, histVars>>

\* A Delete that also removes the posts of the deleted user.
deleteUser_Cascades(param) ==
    LET id == idOf[param]
        i  == IndexOf(users, id.val)
        NotBy(post) == post.AuthorID # id.val
    IN  IF id.err
        THEN /\ resp' = Response("deleteUser", param, NoReq, 400, ErrorBody("Invalid user ID"))
             /\ UNCHANGED <<concVars, dataVars, histVars>>
        ELSE IF i = 0
        THEN /\ resp' = Response("deleteUser", param, NoReq, 404, ErrorBody("User not found"))
             /\ UNCHANGED <<concVars, dataVars, histVars>>
        ELSE /\ users' = RemoveAt(users, i)
             /\ posts' = SelectSeq(posts, NotBy)
             /\ resp' = Response("deleteUser", param, NoReq, 200, MessageBody("User deleted successfully"))
             /\ deleted' = [deleted EXCEPT !.users = @ \cup {id.val}]
             /\ UNCHANGED <<concVars, userCounter, postCounter, now, issued>>

deleteUser(param) ==
    LET id == idOf[param]
        i  == IndexOf(users, id.val)
    IN  IF id.err
        THEN /\ resp' = Response("deleteUser", param, NoReq, 400, ErrorBody("Invalid user ID"))
             /\ UNCHANGED <<concVars, dataVars, histVars>>
        ELSE IF i = 0
        THEN /\ resp' = Response("deleteUser", param, NoReq, 404, ErrorBody("User not found"))
             /\ UNCHANGED <<concVars, dataVars, histVars>>
        ELSE /\ users' = RemoveAt(users, i)
             /\ resp' = Response("deleteUser", param, NoReq, 200, MessageBody("User deleted successfully"))
             /\ deleted' = [deleted EXCEPT !.users = @ \cup {id.val}]
             /\ UNCHANGED <<concVars, posts, userCounter, postCounter, now, issued>>

(***************************************************************************)
(* Post handlers.                                                          *)
(***************************************************************************)
getPosts ==
    /\ resp' = Response("getPosts", NoParam, NoReq, 200,
                        [posts |-> posts, count |-> Len(posts)])
    /\ UNCHANGED <<concVars, dataVars, histVars>>

createPost(req) ==
    IF ~BindPost(req)
    THEN /\ resp' = Response("createPost", NoParam, req, 400, BindError)
         /\ UNCHANGED <<concVars, dataVars, histVars>>
    ELSE LET post == NewPost(postCounter, req, AuthorFor(users))
         IN  /\ postCounter <= MaxPostId
             /\ posts' = Append(posts, post)
             /\ postCounter' = Incr(postCounter)
             /\ resp' = Response("createPost", NoParam, req, 201, post)
             /\ issued' = [issued EXCEPT !.posts = Append(@, post.ID)]
             /\ UNCHANGED <<concVars, users, userCounter, now, deleted>>

getPost(param) ==
    LET id == idOf[param]
        i  == IndexOf(posts, id.val)
    IN  /\ resp' = IF id.err
                   THEN Response("getPost", param, NoReq, 400, ErrorBody("Invalid post ID"))
                   ELSE IF i # 0
                   THEN Response("getPost", param, NoReq, 200, posts[i])
                   ELSE Response("getPost", param, NoReq, 404, ErrorBody("Post not found"))
        /\ UNCHANGED <<concVars, dataVars, histVars>>

updatePost(param, req) ==
    LET id == idOf[param]
        i  == IndexOf(posts, id.val)
    IN  IF id.err
        THEN /\ resp' = Response("updatePost", param, req, 400, ErrorBody("Invalid post ID"))
             /\ UNCHANGED <<concVars, dataVars, histVars>>
        ELSE IF ~BindPost(req)
        THEN /\ resp' = Response("updatePost", param, req, 400, BindError)
             /\ UNCHANGED <<concVars, dataVars, histVars>>
        ELSE IF i = 0
        THEN /\ resp' = Response("updatePost", param, req, 404, ErrorBody("Post not found"))
             /\ UNCHANGED <<concVars, dataVars, histVars>>
        ELSE /\ now < MaxTime
             /\ now' = now + 1
             /\ posts' = [posts EXCEPT ![i] = UpdatedPost(@, req, now')]
             /\ resp' = Response("updatePost", param, req, 200, posts'[i])
             /\ UNCHANGED <<concVars, users, userCounter, postCounter, histVars>>

deletePost(param) ==
    LET id == idOf[param]
        i  == IndexOf(posts, id.val)
    IN  IF id.err
        THEN /\ resp' = Response("deletePost", param, NoReq, 400, ErrorBody("Invalid post ID"))
             /\ UNCHANGED <<concVars, dataVars, histVars>>
        ELSE IF i = 0
        THEN /\ resp' = Response("deletePost", param, NoReq, 404, ErrorBody("Post not found"))
             /\ UNCHANGED <<concVars, dataVars, histVars>>
        ELSE /\ posts' = RemoveAt(posts, i)
             /\ resp' = Response("deletePost", param, NoReq, 200, MessageBody("Post deleted successfully"))
             /\ deleted' = [deleted EXCEPT !.posts = @ \cup {id.val}]
             /\ UNCHANGED <<concVars, users, userCounter, postCounter, now, issued>>

Next ==
    \/ getUsers
    \/ \E req \in UserReqs : createUser(req)
    \/ \E param \in IdParams : getUser(param)
    \/ \E param \in IdParams, req \in UserReqs : updateUser(param, req)
    \/ \E param \in IdParams : deleteUser(param)
    \/ getPosts
    \/ \E req \in PostReqs : createPost(req)
    \/ \E param \in IdParams : getPost(param)
    \/ \E param \in IdParams, req \in PostReqs : updatePost(param, req)
    \/ \E param \in IdParams : deletePost(param)

Spec == Init /\ [][Next]_vars

(***************************************************************************)
(* Two goroutines, one request each.  gin runs every handler on the        *)
(* goroutine of its connection and main.go takes no lock, so the loads and *)
(* stores of users, of its elements and of userCounter interleave.  One    *)
(* step is one load or store of a package-level variable (a slice header,  *)
(* an element, a field, the counter) with the local computation around it. *)
(* A failed bounds check panics; gin.Recovery() answers it with 500.       *)
(***************************************************************************)
\* The users before the two requests: what zero, one or two serialized
\* Creates, and then a Delete of the first user, leave behind.
ConcStarts ==
    LET u1 == NewUser(1, [username |-> "alice", email |-> "a@x.com"])
        u2 == NewUser(2, [username |-> "bob", email |-> "b@x.com"])
        s0 == [heap |-> <<>>, hdr |-> NilSlice]
        s1 == AppendSlice(s0.heap, s0.hdr, u1)
        s2 == AppendSlice(s1.heap, s1.hdr, u2)
        s3 == DeleteSlice(s2.heap, s2.hdr, 0)
    IN  { [heap |-> s0.heap, hdr |-> s0.hdr, counter |-> 1],
          [heap |-> s1.heap, hdr |-> s1.hdr, counter |-> 2],
          [heap |-> s2.heap, hdr |-> s2.hdr, counter |-> 3],
          [heap |-> s3.heap, hdr |-> s3.hdr, counter |-> 3] }

InitConc ==
    /\ SerialInit
    /\ \E s \in ConcStarts :
           /\ cUsers = s.hdr
           /\ cHeap = s.heap
           /\ cUserCounter = s.counter
           /\ cStart = [users |-> View(s.heap, s.hdr), counter |-> s.counter]
    /\ pc = [p \in Procs |-> "idle"]
    /\ loc = [p \in Procs |-> Loc0]
    /\ out = [p \in Procs |-> NoOut]

Goto(p, label) == pc' = [pc EXCEPT ![p] = label]

Answer(p, response) ==
    /\ pc' = [pc EXCEPT ![p] = "done"]
    /\ out' = [out EXCEPT ![p] = response]

memVars == <<cUsers, cHeap, cUserCounter>>

(* getUsers *)
\* gin.H{"users": users, ...}: the slice header is loaded.
GUStart(p) ==
    /\ pc[p] = "idle"
    /\ loc' = [loc EXCEPT ![p].h = cUsers, ![p].i = 0, ![p].list = <<>>]
    /\ Goto(p, "gu_len")
    /\ UNCHANGED <<serialVars, now, memVars, out, cStart>>

\* "count": len(users)
GULen(p) ==
    /\ pc[p] = "gu_len"
    /\ loc' = [loc EXCEPT ![p].count = cUsers.len]
    /\ Goto(p, "gu_elems")
    /\ UNCHANGED <<serialVars, now, memVars, out, cStart>>

\* c.JSON encodes the elements of the loaded slice one after the other.
GUElem(p) ==
    /\ pc[p] = "gu_elems"
    /\ loc[p].i < loc[p].h.len
    /\ loc' = [loc EXCEPT ![p].list = Append(@, cHeap[loc[p].h.ptr][loc[p].i + 1]),
                          ![p].i = @ + 1]
    /\ UNCHANGED <<serialVars, now, memVars, pc, out, cStart>>

GURespond(p) ==
    /\ pc[p] = "gu_elems"
    /\ loc[p].i = loc[p].h.len
    /\ Answer(p, Response("getUsers", NoParam, NoReq, 200,
                          [users |-> loc[p].list, count |-> loc[p].count]))
    /\ UNCHANGED <<serialVars, now, memVars, loc, cStart>>

(* createUser *)
\* ShouldBindJSON, then `range users` loads the slice header.
CUStart(p, req) ==
    /\ pc[p] = "idle"
    /\ IF ~BindUser(req)
       THEN /\ Answer(p, Response("createUser", NoParam, req, 400, BindError))
            /\ UNCHANGED loc
       ELSE /\ loc' = [loc EXCEPT ![p].req = req, ![p].h = cUsers, ![p].i = 0]
            /\ Goto(p, "cu_scan")
            /\ UNCHANGED out
    /\ UNCHANGED <<serialVars, now, memVars, cStart>>

\* One iteration of the uniqueness scan: the element is loaded and compared.
CUScan(p) ==
    /\ pc[p] = "cu_scan"
    /\ loc[p].i < loc[p].h.len
    /\ LET user == cHeap[loc[p].h.ptr][loc[p].i + 1]
       IN  IF UserExists(<<user>>, loc[p].req)
           THEN /\ Answer(p, Response("createUser", NoParam, loc[p].req,
                                      409, ErrorBody("User already exists")))
                /\ UNCHANGED loc
           ELSE /\ loc' = [loc EXCEPT ![p].i = @ + 1]
                /\ UNCHANGED <<pc, out>>
    /\ UNCHANGED <<serialVars, now, memVars, cStart>>

\* user := User{ID: userCounter, ...}: the counter is loaded.
CUNew(p) ==
    /\ pc[p] = "cu_scan"
    /\ loc[p].i = loc[p].h.len
    /\ loc' = [loc EXCEPT ![p].user = NewUser(cUserCounter, loc[p].req)]
    /\ Goto(p, "cu_append")
    /\ UNCHANGED <<serialVars, now, memVars, out, cStart>>

\* append(users, user): the header is loaded and the element written.
CUAppend(p) ==
    /\ pc[p] = "cu_append"
    /\ LET r == AppendSlice(cHeap, cUsers, loc[p].user)
       IN  /\ cHeap' = r.heap
           /\ loc' = [loc EXCEPT ![p].nh = r.hdr]
    /\ Goto(p, "cu_store")
    /\ UNCHANGED <<serialVars, now, cUsers, cUserCounter, out, cStart>>

\* users = ...: the header append returned is stored.
CUStore(p) ==
    /\ pc[p] = "cu_store"
    /\ cUsers' = loc[p].nh
    /\ Goto(p, "cu_incr")
    /\ UNCHANGED <<serialVars, now, cHeap, cUserCounter, loc, out, cStart>>

\* userCounter++: the load ...
CUIncrLoad(p) ==
    /\ pc[p] = "cu_incr"
    /\ loc' = [loc EXCEPT ![p].c = cUserCounter]
    /\ Goto(p, "cu_incw")
    /\ UNCHANGED <<serialVars, now, memVars, out, cStart>>

\* ... and the store; then c.JSON(http.StatusCreated, user).
CUIncrStore(p) ==
    /\ pc[p] = "cu_incw"
    /\ cUserCounter' = Incr(loc[p].c)
    /\ Answer(p, Response("createUser", NoParam, loc[p].req, 201, loc[p].user))
    /\ UNCHANGED <<serialVars, now, cUsers, cHeap, loc, cStart>>

(* updateUser *)
UUStart(p, param, req) ==
    /\ pc[p] = "idle"
    /\ IF idOf[param].err \/ ~BindUser(req)
       THEN /\ Answer(p, Response("updateUser", param, req, 400,
                                   IF idOf[param].err
                                   THEN ErrorBody("Invalid user ID")
                                   ELSE BindError))
            /\ UNCHANGED loc
       ELSE /\ loc' = [loc EXCEPT ![p].param = param, ![p].req = req,
                                  ![p].id = idOf[param].val,
                                  ![p].h = cUsers, ![p].i = 0]
            /\ Goto(p, "uu_scan")
            /\ UNCHANGED out
    /\ UNCHANGED <<serialVars, now, memVars, cStart>>

\* One iteration of the lookup; loc.i stays at the (0-based) index found.
UUScan(p) ==
    /\ pc[p] = "uu_scan"
    /\ loc[p].i < loc[p].h.len
    /\ LET user == cHeap[loc[p].h.ptr][loc[p].i + 1]
       IN  IF user.ID = loc[p].id
           THEN /\ loc' = [loc EXCEPT ![p].user = user]
                /\ Goto(p, "uu_range")
           ELSE /\ loc' = [loc EXCEPT ![p].i = @ + 1]
                /\ UNCHANGED pc
    /\ UNCHANGED <<serialVars, now, memVars, out, cStart>>

UUNotFound(p) ==
    /\ pc[p] = "uu_scan"
    /\ loc[p].i = loc[p].h.len
    /\ Answer(p, Response("updateUser", loc[p].param, loc[p].req, 404, ErrorBody("User not found")))
    /\ UNCHANGED <<serialVars, now, memVars, loc, cStart>>

\* The inner `range users` loads the slice header again.
UURange(p) ==
    /\ pc[p] = "uu_range"
    /\ loc' = [loc EXCEPT ![p].h2 = cUsers, ![p].j = 0]
    /\ Goto(p, "uu_inner")
    /\ UNCHANGED <<serialVars, now, memVars, out, cStart>>

UUInner(p) ==
    /\ pc[p] = "uu_inner"
    /\ loc[p].j < loc[p].h2.len
    /\ LET otherUser == cHeap[loc[p].h2.ptr][loc[p].j + 1]
       IN  IF UpdateConflict(<<otherUser>>, loc[p].user, loc[p].req)
           THEN /\ Answer(p, Response("updateUser", loc[p].param, loc[p].req,
                                      409, ErrorBody("Username or email already exists")))
                /\ UNCHANGED loc
           ELSE /\ loc' = [loc EXCEPT ![p].j = @ + 1]
                /\ UNCHANGED <<pc, out>>
    /\ UNCHANGED <<serialVars, now, memVars, cStart>>

\* users[i].Username = req.Username, on the slice as it is now.
UUWriteName(p) ==
    /\ pc[p] = "uu_inner"
    /\ loc[p].j = loc[p].h2.len
    /\ IF loc[p].i >= cUsers.len
       THEN /\ Answer(p, Response("updateUser", loc[p].param, loc[p].req, 500, NoBody))
            /\ UNCHANGED cHeap
       ELSE /\ cHeap' = [cHeap EXCEPT ![cUsers.ptr][loc[p].i + 1].Username =
                                          loc[p].req.username]
            /\ Goto(p, "uu_email")
            /\ UNCHANGED out
    /\ UNCHANGED <<serialVars, now, cUsers, cUserCounter, loc, cStart>>

\* users[i].Email = req.Email
UUWriteEmail(p) ==
    /\ pc[p] = "uu_email"
    /\ IF loc[p].i >= cUsers.len
       THEN /\ Answer(p, Response("updateUser", loc[p].param, loc[p].req, 500, NoBody))
            /\ UNCHANGED cHeap
       ELSE /\ cHeap' = [cHeap EXCEPT ![cUsers.ptr][loc[p].i + 1].Email =
                                          loc[p].req.email]
            /\ Goto(p, "uu_time")
            /\ UNCHANGED out
    /\ UNCHANGED <<serialVars, now, cUsers, cUserCounter, loc, cStart>>

\* users[i].UpdatedAt = time.Now()
UUWriteTime(p) ==
    /\ pc[p] = "uu_time"
    /\ now' = now + 1
    /\ IF loc[p].i >= cUsers.len
       THEN /\ Answer(p, Response("updateUser", loc[p].param, loc[p].req, 500, NoBody))
            /\ UNCHANGED cHeap
       ELSE /\ cHeap' = [cHeap EXCEPT ![cUsers.ptr][loc[p].i + 1].UpdatedAt =
                                          now']
            /\ Goto(p, "uu_json")
            /\ UNCHANGED out
    /\ UNCHANGED <<serialVars, cUsers, cUserCounter, loc, cStart>>

\* c.JSON(http.StatusOK, users[i])
UURespond(p) ==
    /\ pc[p] = "uu_json"
    /\ IF loc[p].i >= cUsers.len
       THEN Answer(p, Response("updateUser", loc[p].param, loc[p].req, 500, NoBody))
       ELSE Answer(p, Response("updateUser", loc[p].param, loc[p].req, 200,
                               cHeap[cUsers.ptr][loc[p].i + 1]))
    /\ UNCHANGED <<serialVars, now, memVars, loc, cStart>>

(* deleteUser *)
DUStart(p, param) ==
    /\ pc[p] = "idle"
    /\ IF idOf[param].err
       THEN /\ Answer(p, Response("deleteUser", param, NoReq, 400, ErrorBody("Invalid user ID")))
            /\ UNCHANGED loc
       ELSE /\ loc' = [loc EXCEPT ![p].param = param,
                                  ![p].id = idOf[param].val,
                                  ![p].h = cUsers, ![p].i = 0]
            /\ Goto(p, "du_scan")
            /\ UNCHANGED out
    /\ UNCHANGED <<serialVars, now, memVars, cStart>>

DUScan(p) ==
    /\ pc[p] = "du_scan"
    /\ loc[p].i < loc[p].h.len
    /\ IF cHeap[loc[p].h.ptr][loc[p].i + 1].ID = loc[p].id
       THEN /\ Goto(p, "du_append")
            /\ UNCHANGED loc
       ELSE /\ loc' = [loc EXCEPT ![p].i = @ + 1]
            /\ UNCHANGED pc
    /\ UNCHANGED <<serialVars, now, memVars, out, cStart>>

DUNotFound(p) ==
    /\ pc[p] = "du_scan"
    /\ loc[p].i = loc[p].h.len
    /\ Answer(p, Response("deleteUser", loc[p].param, NoReq, 404, ErrorBody("User not found")))
    /\ UNCHANGED <<serialVars, now, memVars, loc, cStart>>

\* append(users[:i], users[i+1:]...): the header is loaded, users[i+1:] is
\* bounds-checked against its len, and the tail is copied down.
DUAppend(p) ==
    /\ pc[p] = "du_append"
    /\ IF loc[p].i + 1 > cUsers.len
       THEN /\ Answer(p, Response("deleteUser", loc[p].param, NoReq, 500, NoBody))
            /\ UNCHANGED <<cHeap, loc>>
       ELSE LET r == DeleteSlice(cHeap, cUsers, loc[p].i)
            IN  /\ cHeap' = r.heap
                /\ loc' = [loc EXCEPT ![p].nh = r.hdr]
                /\ Goto(p, "du_store")
                /\ UNCHANGED out
    /\ UNCHANGED <<serialVars, now, cUsers, cUserCounter, cStart>>

\* users = ...; then c.JSON(http.StatusOK, ...).
DUStore(p) ==
    /\ pc[p] = "du_store"
    /\ cUsers' = loc[p].nh
    /\ Answer(p, Response("deleteUser", loc[p].param, NoReq, 200, MessageBody("User deleted successfully")))
    /\ UNCHANGED <<serialVars, now, cHeap, cUserCounter, loc, cStart>>

NextConc ==
    \E p \in Procs :
        \/ GUStart(p) \/ GULen(p) \/ GUElem(p) \/ GURespond(p)
        \/ \E req \in UserReqs : CUStart(p, req)
        \/ CUScan(p) \/ CUNew(p) \/ CUAppend(p) \/ CUStore(p)
        \/ CUIncrLoad(p) \/ CUIncrStore(p)
        \/ \E param \in IdParams, req \in UserReqs : UUStart(p, param, req)
        \/ UUScan(p) \/ UUNotFound(p) \/ UURange(p) \/ UUInner(p)
        \/ UUWriteName(p) \/ UUWriteEmail(p) \/ UUWriteTime(p) \/ UURespond(p)
        \/ \E param \in IdParams : DUStart(p, param)
        \/ DUScan(p) \/ DUNotFound(p) \/ DUAppend(p) \/ DUStore(p)

SpecConc == InitConc /\ [][NextConc]_vars

(***************************************************************************)
(* Properties of the serialized handlers (Spec).                           *)
(***************************************************************************)
Present(s, id) == \E i \in 1..Len(s) : s[i].ID = id

\* The parsed :id of the last request (0 when it did not parse).
RespId(r) == IF r.param \in IdParams THEN idOf[r.param].val ELSE 0
RespIdOk(r) == r.param \in IdParams /\ ~idOf[r.param].err

\* C1: in each repository the identities answered by successful Creates
\* are 1, 2, 3, ... in that order (strictly increasing by one, never
\* repeated), and the counter is always one more than the number of
\* successful Creates: nothing else (a failed Create, an Update, a Delete)
\* moves it, so a deleted identity is never issued again.
C1_IdentitiesIncreaseByOne ==
    /\ issued.users = [k \in 1..(userCounter - 1) |-> k]
    /\ issued.posts = [k \in 1..(postCounter - 1) |-> k]
    /\ (resp.op = "createUser" /\ resp.status = 201)
           => resp.body.ID = userCounter - 1
    /\ (resp.op = "createPost" /\ resp.status = 201)
           => resp.body.ID = postCounter - 1
    /\ deleted.users \subseteq 1..(userCounter - 1)
    /\ deleted.posts \subseteq 1..(postCounter - 1)

\* A user Create answered 201 with identity 2 after identity 1 was deleted,
\* and two posts created.
C1_Witness ==
    /\ resp.op = "createUser" /\ resp.status = 201 /\ resp.body.ID = 2
    /\ 1 \in deleted.users
    /\ issued.posts = <<1, 2>>

\* C2: no two users of the collection share a username, an email or an id.
C2_UsersUnique ==
    \A i, j \in 1..Len(users) :
        i # j => /\ users[i].Username # users[j].Username
                 /\ users[i].Email # users[j].Email
                 /\ users[i].ID # users[j].ID

\* Two users are present and an Update has just been applied.
C2_Witness ==
    /\ Len(users) = 2
    /\ resp.op = "updateUser" /\ resp.status = 200

\* C5: a user Create (of a request that binds) is answered 409, with the
\* collection and the counter unchanged, when some present user has its
\* username or its email; otherwise it is answered 201 and appends the user.
C5_CreateConflict ==
    [][ (resp'.op = "createUser" /\ BindUser(resp'.req)) =>
          IF \E i \in 1..Len(users) :
                 \/ users[i].Username = resp'.req.username
                 \/ users[i].Email = resp'.req.email
          THEN /\ resp'.status = 409
               /\ users' = users
               /\ userCounter' = userCounter
          ELSE /\ resp'.status = 201
               /\ resp'.body.Username = resp'.req.username
               /\ resp'.body.Email = resp'.req.email
               /\ users' = Append(users, resp'.body)
               /\ userCounter' = userCounter + 1 ]_vars

\* A Create answered 409 where only the email matches a present user.
C5_Witness ==
    /\ resp.op = "createUser" /\ resp.status = 409
    /\ \E i \in 1..Len(users) : users[i].Email = resp.req.email
    /\ \A i \in 1..Len(users) : users[i].Username # resp.req.username

\* C6: an Update (of a request that binds) whose id parses and names no
\* present entity is answered 404 and changes nothing, for users also when
\* the requested username or email is that of a present user.
C6_UpdateAbsentIsNotFound ==
    [][ /\ (/\ resp'.op = "updateUser"
            /\ RespIdOk(resp') /\ BindUser(resp'.req)
            /\ ~Present(users, RespId(resp')))
           => (resp'.status = 404 /\ UNCHANGED dataVars)
        /\ (/\ resp'.op = "updatePost"
            /\ RespIdOk(resp') /\ BindPost(resp'.req)
            /\ ~Present(posts, RespId(resp')))
           => (resp'.status = 404 /\ UNCHANGED dataVars) ]_vars

\* An Update of an absent user answered 404 although its username is taken.
C6_Witness ==
    /\ resp.op = "updateUser" /\ resp.status = 404
    /\ \E i \in 1..Len(users) : users[i].Username = resp.req.username

\* C7: a user Update (of a request that binds) on a present id is answered
\* 409 exactly when a present user with another id has the requested
\* username or email, and then no user changes; otherwise (also when the
\* values are the target's own) it is answered 200.
C7_UpdateConflictOnlyWithOthers ==
    [][ (/\ resp'.op = "updateUser"
         /\ RespIdOk(resp') /\ BindUser(resp'.req)
         /\ Present(users, RespId(resp')))
        => LET clash ==
                 \E j \in 1..Len(users) :
                     /\ users[j].ID # RespId(resp')
                     /\ \/ users[j].Username = resp'.req.username
                        \/ users[j].Email = resp'.req.email
           IN  /\ resp'.status = 409 <=> clash
               /\ clash => users' = users
               /\ ~clash => resp'.status = 200 ]_vars

\* An Update answered 409 because another user has the requested email,
\* while the requested username is the target's own.
C7_Witness ==
    /\ resp.op = "updateUser" /\ resp.status = 409
    /\ \E i, j \in 1..Len(users) :
           /\ users[i].ID = RespId(resp)
           /\ users[i].Username = resp.req.username
           /\ users[j].ID # RespId(resp)
           /\ users[j].Email = resp.req.email

\* C8: an identity that was deleted is never present again, and every Get,
\* Update or Delete of it (with an id that parses and a request that binds)
\* is answered 404.
C8_DeletedStaysAbsent ==
    /\ [](/\ \A id \in deleted.users : ~Present(users, id)
          /\ \A id \in deleted.posts : ~Present(posts, id))
    /\ [][ /\ (/\ resp'.op \in {"getUser", "updateUser", "deleteUser"}
               /\ RespIdOk(resp')
               /\ resp'.op = "updateUser" => BindUser(resp'.req)
               /\ RespId(resp') \in deleted.users)
              => resp'.status = 404
           /\ (/\ resp'.op \in {"getPost", "updatePost", "deletePost"}
               /\ RespIdOk(resp')
               /\ resp'.op = "updatePost" => BindPost(resp'.req)
               /\ RespId(resp') \in deleted.posts)
              => resp'.status = 404 ]_vars

\* A Get of identity 1 answered 404 after 1 was deleted and 2 was created.
C8_Witness ==
    /\ resp.op = "getUser" /\ resp.param = <<"1">> /\ resp.status = 404
    /\ 1 \in deleted.users
    /\ Present(users, 2)

BothDone(p, q) == p # q /\ pc[p] = "done" /\ pc[q] = "done"

\* The users the package-level slice shows now.
CUsersNow == View(cHeap, cUsers)

Taken(us, req) ==
    \E i \in 1..Len(us) :
        us[i].Username = req.username \/ us[i].Email = req.email

\* C3: of two concurrent user Creates that carry the same username or the
\* same email (held by no user before them), one is answered 201 and the
\* other 409, and afterwards no two users share a username or an email.
C3_ConcurrentCreateOneWins ==
    \A p, q \in Procs :
        (/\ BothDone(p, q)
         /\ out[p].op = "createUser" /\ out[q].op = "createUser"
         /\ BindUser(out[p].req) /\ BindUser(out[q].req)
         /\ \/ out[p].req.username = out[q].req.username
            \/ out[p].req.email = out[q].req.email
         /\ ~Taken(cStart.users, out[p].req)
         /\ ~Taken(cStart.users, out[q].req))
        => /\ {out[p].status, out[q].status} = {201, 409}
           /\ \A i, j \in 1..Len(CUsersNow) :
                  i # j => /\ CUsersNow[i].Username # CUsersNow[j].Username
                           /\ CUsersNow[i].Email # CUsersNow[j].Email

\* C4: two concurrent user Creates that both succeed are answered with
\* different identities, leave no two users with the same id, and leave
\* the counter 2 higher than before.
C4_ConcurrentCreateDistinctIds ==
    \A p, q \in Procs :
        (/\ BothDone(p, q)
         /\ out[p].op = "createUser" /\ out[q].op = "createUser"
         /\ out[p].status = 201 /\ out[q].status = 201
         /\ out[p].req.username # out[q].req.username
         /\ out[p].req.email # out[q].req.email)
        => /\ out[p].body.ID # out[q].body.ID
           /\ \A i, j \in 1..Len(CUsersNow) :
                  i # j => CUsersNow[i].ID # CUsersNow[j].ID
           /\ cUserCounter = cStart.counter + 2

\* C9: a List that runs concurrently with one Create, Update or Delete
\* answers the users as they were before that mutation or as they are
\* after it.
C9_ListSeesBeforeOrAfter ==
    \A p, q \in Procs :
        (/\ BothDone(p, q)
         /\ out[p].op = "getUsers"
         /\ out[q].op \in {"createUser", "updateUser", "deleteUser"})
        => out[p].body.users \in {cStart.users, CUsersNow}

(***************************************************************************)
(* Timestamps (Spec).                                                      *)
(***************************************************************************)
\* C11: the entity a successful Create answers (and stores, as the last
\* element of its collection) has createdAt = updatedAt = the time of its
\* creation, a time read from the clock and so never the zero time.
C11_CreateSetsTimestamps ==
    /\ (resp.op = "createUser" /\ resp.status = 201) =>
           /\ resp.body.CreatedAt = resp.body.UpdatedAt
           /\ resp.body.CreatedAt # ZeroTime
           /\ users[Len(users)] = resp.body
    /\ (resp.op = "createPost" /\ resp.status = 201) =>
           /\ resp.body.CreatedAt = resp.body.UpdatedAt
           /\ resp.body.CreatedAt # ZeroTime
           /\ posts[Len(posts)] = resp.body

\* C12: a successful user Update(id, newUsername, newEmail) stores and
\* answers the user with the same id, the new username and email, createdAt
\* as it was before and updatedAt strictly later than it was before; a
\* Get(id) that follows it is answered 200 with exactly that user.
C12_UpdateThenGet ==
    [][ /\ (resp'.op = "updateUser" /\ resp'.status = 200) =>
              /\ Present(users, RespId(resp'))
              /\ LET i == IndexOf(users, RespId(resp'))
                 IN  /\ resp'.body = users'[i]
                     /\ resp'.body.ID = RespId(resp')
                     /\ resp'.body.ID = users[i].ID
                     /\ resp'.body.Username = resp'.req.username
                     /\ resp'.body.Email = resp'.req.email
                     /\ resp'.body.CreatedAt = users[i].CreatedAt
                     /\ resp'.body.UpdatedAt > users[i].UpdatedAt
        /\ (/\ resp.op = "updateUser" /\ resp.status = 200
            /\ resp'.op = "getUser" /\ RespIdOk(resp')
            /\ RespId(resp') = RespId(resp)) =>
              /\ resp'.status = 200
              /\ resp'.body = resp.body ]_vars

\* A Get answered with a user whose updatedAt is later than its createdAt:
\* the user was updated before the Get.
C12_Witness ==
    /\ resp.op = "getUser" /\ resp.status = 200
    /\ resp.body.UpdatedAt > resp.body.CreatedAt
    /\ resp.body.UpdatedAt = now

(***************************************************************************)
(* Delete, the life of an identity, and what each handler leaves alone.    *)
(***************************************************************************)
\* The elements of s whose ID is not id, in their order in s.
Without(s, id) ==
    LET Keep(e) == e.ID # id IN SelectSeq(s, Keep)

Ids(s)   == { s[i].ID : i \in 1..Len(s) }
IdSeq(s) == [k \in 1..Len(s) |-> s[k].ID]

ReadOps == {"getUsers", "getUser", "getPosts", "getPost"}

\* C14: an identity is present at most once in its collection; it becomes
\* present only by a successful Create that answers that identity and
\* absent only by a successful Delete of that identity; a successful Update
\* leaves the identities and their positions in the list as they were, with
\* its target among them; a Get, a List and every failed operation leave
\* both collections as they were.
C14_IdentityLifecycle ==
    /\ [](/\ \A i, j \in 1..Len(users) : i # j => users[i].ID # users[j].ID
          /\ \A i, j \in 1..Len(posts) : i # j => posts[i].ID # posts[j].ID)
    /\ [][ /\ users' # users =>
                  /\ \A id \in Ids(users') \ Ids(users) :
                         /\ resp'.op = "createUser" /\ resp'.status = 201
                         /\ resp'.body.ID = id
                  /\ \A id \in Ids(users) \ Ids(users') :
                         /\ resp'.op = "deleteUser" /\ resp'.status = 200
                         /\ RespId(resp') = id
           /\ posts' # posts =>
                  /\ \A id \in Ids(posts') \ Ids(posts) :
                         /\ resp'.op = "createPost" /\ resp'.status = 201
                         /\ resp'.body.ID = id
                  /\ \A id \in Ids(posts) \ Ids(posts') :
                         /\ resp'.op = "deletePost" /\ resp'.status = 200
                         /\ RespId(resp') = id
           /\ (resp'.op = "updateUser" /\ resp'.status = 200) =>
                  /\ RespId(resp') \in Ids(users)
                  /\ IdSeq(users') = IdSeq(users)
                  /\ IdSeq(posts') = IdSeq(posts)
           /\ (resp'.op = "updatePost" /\ resp'.status = 200) =>
                  /\ RespId(resp') \in Ids(posts)
                  /\ IdSeq(posts') = IdSeq(posts)
                  /\ IdSeq(users') = IdSeq(users)
           /\ (resp'.op \in ReadOps \/ resp'.status \notin {200, 201}) =>
                  /\ users' = users
                  /\ posts' = posts ]_vars

\* Identity 1 went from absent to present to absent; identity 2, now first
\* in the list, has just been updated and is still there.
C14_Witness ==
    /\ resp.op = "updateUser" /\ resp.status = 200
    /\ RespId(resp) = 2
    /\ 1 \in deleted.users
    /\ IdSeq(users) = <<2>>
    /\ users[1].UpdatedAt = now

\* C15: a successful post Update sets the title and the content of the
\* target post to the requested ones and its updatedAt to the time of the
\* update, and changes nothing else: the target's id, authorId, author and
\* createdAt, every other post, the post counter, the users and the user
\* counter are as before, whatever the user list has become since the post
\* was created.
C15_PostUpdateFrame ==
    [][ (resp'.op = "updatePost" /\ resp'.status = 200) =>
          /\ Present(posts, RespId(resp'))
          /\ LET i == IndexOf(posts, RespId(resp'))
             IN  /\ Len(posts') = Len(posts)
                 /\ posts'[i].ID = posts[i].ID
                 /\ posts'[i].AuthorID = posts[i].AuthorID
                 /\ posts'[i].Author = posts[i].Author
                 /\ posts'[i].CreatedAt = posts[i].CreatedAt
                 /\ posts'[i].Title = resp'.req.title
                 /\ posts'[i].Content = resp'.req.content
                 /\ posts'[i].UpdatedAt = now'
                 /\ \A j \in 1..Len(posts) : j # i => posts'[j] = posts[j]
                 /\ resp'.body = posts'[i]
          /\ UNCHANGED <<postCounter, users, userCounter>> ]_vars

\* A post updated while the first user of the list is no longer the one
\* the post was given as author at its creation.
C15_Witness ==
    /\ resp.op = "updatePost" /\ resp.status = 200
    /\ Len(users) > 0
    /\ resp.body.AuthorID # AuthorFor(users)
    /\ resp.body.UpdatedAt = now /\ now > ZeroTime

StrictlyIncreasingIds(s) ==
    \A i, j \in 1..Len(s) : i < j => s[i].ID < s[j].ID

\* C16: in every state of the serialized handlers each collection is in
\* order of creation (strictly increasing id) and holds as many entities as
\* there were successful Creates minus successful Deletes; a List is
\* answered 200 with the whole collection in that order and with that
\* number as its count; a List and a Get change neither a collection nor a
\* counter.
C16_ListInInsertionOrder ==
    /\ [](/\ StrictlyIncreasingIds(users)
          /\ StrictlyIncreasingIds(posts)
          /\ Len(users) = Len(issued.users) - Cardinality(deleted.users)
          /\ Len(posts) = Len(issued.posts) - Cardinality(deleted.posts))
    /\ [][ /\ resp'.op \in ReadOps => UNCHANGED dataVars
           /\ resp'.op = "getUsers" =>
                  /\ resp'.status = 200
                  /\ resp'.body.users = users
                  /\ resp'.body.count =
                         Len(issued.users) - Cardinality(deleted.users)
           /\ resp'.op = "getPosts" =>
                  /\ resp'.status = 200
                  /\ resp'.body.posts = posts
                  /\ resp'.body.count =
                         Len(issued.posts) - Cardinality(deleted.posts) ]_vars

\* A List answered with the one user left, user 2, after two Creates and
\* the Delete of user 1.
C16_Witness ==
    /\ resp.op = "getUsers"
    /\ resp.body.count = 1
    /\ IdSeq(resp.body.users) = <<2>>
    /\ Len(issued.users) = 2 /\ deleted.users = {1}

(***************************************************************************)
(* Validation (Spec).                                                      *)
(***************************************************************************)
UserIdOps == {"getUser", "updateUser", "deleteUser"}
PostIdOps == {"getPost", "updatePost", "deletePost"}

\* The request body binds, for the handlers that read one.
Binds(r) ==
    /\ r.op = "updateUser" => BindUser(r.req)
    /\ r.op = "updatePost" => BindPost(r.req)

\* s is a decimal numeral (digits only, at least one) whose value is at
\* most 1<<32 - 1.
IsDecimalUint32(s) ==
    /\ Len(s) > 0
    /\ \A k \in 1..Len(s) : DigitVal(s[k]) \in 0..9
    /\ LET ds == StripZeros([k \in 1..Len(s) |-> DigitVal(s[k])])
       IN  \/ Len(ds) < Len(MaxUint32Digits)
           \/ /\ Len(ds) = Len(MaxUint32Digits)
              /\ ~DigitsGreater(ds, MaxUint32Digits)

wellFormedOf == [p \in IdParams |-> IsDecimalUint32(p)]

\* The id parameter of the request is well-formed.
WellFormedId(r) == r.param \in IdParams /\ wellFormedOf[r.param]

\* C17: a Get, Update or Delete whose id parameter is not a decimal
\* unsigned 32-bit integer is answered 400 "Invalid ... ID" whatever its
\* body and changes nothing; an Update with a well-formed id and a body
\* that does not bind is answered 400 with the binding error, whether or
\* not the id is present, and changes nothing; a well-formed request on an
\* absent id is answered 404, never 400 or 409, and changes nothing; a
\* well-formed request on a present id is answered neither 400 nor 404.
C17_ValidationOrder ==
    [][ /\ (resp'.op \in UserIdOps /\ ~WellFormedId(resp')) =>
              /\ resp'.status = 400
              /\ resp'.body = ErrorBody("Invalid user ID")
              /\ UNCHANGED dataVars
        /\ (resp'.op \in PostIdOps /\ ~WellFormedId(resp')) =>
              /\ resp'.status = 400
              /\ resp'.body = ErrorBody("Invalid post ID")
              /\ UNCHANGED dataVars
        /\ (/\ resp'.op \in UserIdOps \cup PostIdOps
            /\ WellFormedId(resp') /\ ~Binds(resp')) =>
              /\ resp'.status = 400
              /\ resp'.body = BindError
              /\ UNCHANGED dataVars
        /\ (/\ resp'.op \in UserIdOps
            /\ WellFormedId(resp') /\ Binds(resp')) =>
              IF Present(users, RespId(resp'))
              THEN resp'.status \in {200, 409}
              ELSE /\ resp'.status = 404
                   /\ UNCHANGED dataVars
        /\ (/\ resp'.op \in PostIdOps
            /\ WellFormedId(resp') /\ Binds(resp')) =>
              IF Present(posts, RespId(resp'))
              THEN resp'.status = 200
              ELSE /\ resp'.status = 404
                   /\ UNCHANGED dataVars ]_vars

\* An Update with a non-numeric id and a body that does not bind either,
\* answered 400 for the id, while a user is present.
C17_Witness ==
    /\ resp.op = "updateUser" /\ resp.status = 400
    /\ resp.param = <<"x">> /\ ~BindUser(resp.req)
    /\ resp.body = ErrorBody("Invalid user ID")
    /\ Len(users) > 0

(***************************************************************************)
(* Update and Delete interleaved with a Delete (SpecConc).                 *)
(***************************************************************************)
\* C18: when an Update(id) or a Delete(id) runs concurrently with another
\* Delete on the users, no index out of range is accessed (no handler
\* panics into a 500) and every user whose id is the target of neither
\* request is afterwards in the collection exactly as it was before.
C18_InterleavedDeleteTouchesOnlyTarget ==
    \A p, q \in Procs :
        (/\ BothDone(p, q)
         /\ out[p].op \in {"updateUser", "deleteUser"}
         /\ out[q].op = "deleteUser")
        => /\ out[p].status # 500
           /\ out[q].status # 500
           /\ \A k \in 1..Len(cStart.users) :
                  cStart.users[k].ID \notin {RespId(out[p]), RespId(out[q])}
                  => \E m \in 1..Len(CUsersNow) :
                         CUsersNow[m] = cStart.users[k]

(***************************************************************************)
(* Independence of the two repositories (Spec).                            *)
(***************************************************************************)
UserOps == {"getUsers", "createUser", "getUser", "updateUser", "deleteUser"}
PostOps == {"getPosts", "createPost", "getPost", "updatePost", "deletePost"}

=============================================================================
